---- MODULE Spec2Model ----
(***************************************************************************)
(* Model of the snake game of src/Snack/src/main.cpp.                      *)
(*                                                                         *)
(* The state is the set of file-scope variables of main.cpp together with  *)
(* the part of the platform layer (raylib) that UpdateGame reads: the set  *)
(* of keys freshly pressed in the current frame and the frame time.        *)
(* One iteration of the loop of main() is two steps:                       *)
(*   UpdateGame       - the whole of UpdateGame(), followed by DrawGame()  *)
(*                      up to the start of its input poll (DrawGame only   *)
(*                      reads the game state);                             *)
(*   PollInputEvents  - the input poll at the end of DrawGame(), which     *)
(*                      chooses the keys and the frame time of the next    *)
(*                      frame.                                             *)
(*                                                                         *)
(* Time is counted in units of 0.05 s, so MOVE_INTERVAL (0.15 s) is 3.     *)
(* Grid coordinates are the float members of Vector2; they only ever hold  *)
(* small integers and are modelled as integers.                            *)
(***************************************************************************)
EXTENDS Integers, Sequences, FiniteSets

\* ---------------------------------------------------------------------------
\* Bounds of the model
\* ---------------------------------------------------------------------------
\* The window, in pixels (800 x 600 in the program; the model uses a small
\* window, hence a small board).
SCREEN_WIDTH == 80
SCREEN_HEIGHT == 40
\* Frames stop arriving once the snake has this many segments.
MaxLen == 6
\* At most this many keys are freshly pressed in one frame.
MaxKeys == 2
\* Largest frame time, in units of 0.05 s.
MaxFrameTime == 3

\* ---------------------------------------------------------------------------
\* Program constants
\* ---------------------------------------------------------------------------
SQUARE_SIZE == 20
MOVE_INTERVAL == 3

\* The board, in cells.
GAME_AREA_WIDTH == SCREEN_WIDTH \div SQUARE_SIZE
GAME_AREA_HEIGHT == SCREEN_HEIGHT \div SQUARE_SIZE

DIR_RIGHT == "DIR_RIGHT"
DIR_LEFT == "DIR_LEFT"
DIR_UP == "DIR_UP"
DIR_DOWN == "DIR_DOWN"
SnakeDirection == {DIR_RIGHT, DIR_LEFT, DIR_UP, DIR_DOWN}

STATE_PLAYING == "STATE_PLAYING"
STATE_GAME_OVER == "STATE_GAME_OVER"
GameState == {STATE_PLAYING, STATE_GAME_OVER}

KEY_RIGHT == "KEY_RIGHT"
KEY_LEFT == "KEY_LEFT"
KEY_UP == "KEY_UP"
KEY_DOWN == "KEY_DOWN"
KEY_P == "KEY_P"
KEY_ENTER == "KEY_ENTER"
Keys == {KEY_RIGHT, KEY_LEFT, KEY_UP, KEY_DOWN, KEY_P, KEY_ENTER}

\* The inputs a frame can carry.
KeySets == {ks \in SUBSET Keys : Cardinality(ks) <= MaxKeys}
\* A stalled frame: one that spans more than two tick intervals.
LongFrame == 2 * MOVE_INTERVAL + 1
FrameTimes == (0..MaxFrameTime) \cup {LongFrame}

\* Grid positions <<x, y>>.
Cells == (0..(GAME_AREA_WIDTH - 1)) \X (0..(GAME_AREA_HEIGHT - 1))

VARIABLES
    gameState,      \* STATE_PLAYING or STATE_GAME_OVER
    snake,          \* sequence of positions, head first
    snakeDir,       \* direction applied by the last tick
    nextSnakeDir,   \* buffered direction for the next tick
    food,           \* [position, active]
    allowMove,      \* a tick is due
    moveTimer,      \* time accumulated since the last tick
    score,
    paused,
    keys,           \* keys freshly pressed in the current frame (IsKeyPressed)
    frameTime,      \* GetFrameTime() of the current frame
    pc,             \* position of the main loop
    \* Observers of a run; no action of the game reads them.
    elapsed,        \* sum of the frame times of the frames run
    ticks,          \* number of ticks fired
    dropped,        \* accumulator excess over the interval lost at the ticks
    steering        \* the player still presses keys

gameVars == <<gameState, snake, snakeDir, nextSnakeDir, food, allowMove,
              moveTimer, score, paused>>
obsVars == <<elapsed, ticks, dropped, steering>>
vars == <<gameState, snake, snakeDir, nextSnakeDir, food, allowMove,
          moveTimer, score, paused, keys, frameTime, pc,
          elapsed, ticks, dropped, steering>>

\* ---------------------------------------------------------------------------
\* Helpers
\* ---------------------------------------------------------------------------
\* Two directions are opposite when they reverse travel on one axis.
Opposite(d) ==
    CASE d = DIR_RIGHT -> DIR_LEFT
      [] d = DIR_LEFT -> DIR_RIGHT
      [] d = DIR_UP -> DIR_DOWN
      [] d = DIR_DOWN -> DIR_UP

\* raylib's CheckCollisionRecs on rectangles [x, y, width, height].
CheckCollisionRecs(rec1, rec2) ==
    /\ rec1.x < rec2.x + rec2.width
    /\ rec1.x + rec1.width > rec2.x
    /\ rec1.y < rec2.y + rec2.height
    /\ rec1.y + rec1.height > rec2.y

\* The pixel rectangle of a grid cell, as SpawnFood builds it.
CellRec(p) ==
    [x |-> p[1] * SQUARE_SIZE, y |-> p[2] * SQUARE_SIZE,
     width |-> SQUARE_SIZE, height |-> SQUARE_SIZE]

\* The samples on which the loop of SpawnFood leaves food.active true: the cells
\* whose rectangle collides with no segment of s.
FreeCells_NoCheck(s) == Cells

FreeCells(s) ==
    {c \in Cells : \A i \in 1..Len(s) : ~CheckCollisionRecs(CellRec(c), CellRec(s[i]))}

\* The three segments InitGame pushes (GAME_AREA_WIDTH and GAME_AREA_HEIGHT are
\* even in the program, so the float division by 2 is exact).
InitSnake ==
    << <<GAME_AREA_WIDTH \div 2, GAME_AREA_HEIGHT \div 2>>,
       <<(GAME_AREA_WIDTH \div 2) - 1, GAME_AREA_HEIGHT \div 2>>,
       <<(GAME_AREA_WIDTH \div 2) - 2, GAME_AREA_HEIGHT \div 2>> >>


\* ---------------------------------------------------------------------------
\* Input stage (UpdateGame, the four key tests)
\* ---------------------------------------------------------------------------
\* The value of nextSnakeDir after the four tests, made in the order Right, Left,
\* Up, Down, each against the unchanged snakeDir dir.
InputStage_NoReversalTest(dir, next, ks) ==
    LET n1 == IF KEY_RIGHT \in ks THEN DIR_RIGHT ELSE next
        n2 == IF KEY_LEFT \in ks THEN DIR_LEFT ELSE n1
        n3 == IF KEY_UP \in ks THEN DIR_UP ELSE n2
    IN  IF KEY_DOWN \in ks THEN DIR_DOWN ELSE n3

InputStage_AgainstPending(dir, next, ks) ==
    LET n1 == IF KEY_RIGHT \in ks /\ next # DIR_LEFT THEN DIR_RIGHT ELSE next
        n2 == IF KEY_LEFT \in ks /\ n1 # DIR_RIGHT THEN DIR_LEFT ELSE n1
        n3 == IF KEY_UP \in ks /\ n2 # DIR_DOWN THEN DIR_UP ELSE n2
    IN  IF KEY_DOWN \in ks /\ n3 # DIR_UP THEN DIR_DOWN ELSE n3

InputStage_FirstWins(dir, next, ks) ==
    IF KEY_RIGHT \in ks /\ dir # DIR_LEFT THEN DIR_RIGHT
    ELSE IF KEY_LEFT \in ks /\ dir # DIR_RIGHT THEN DIR_LEFT
    ELSE IF KEY_UP \in ks /\ dir # DIR_DOWN THEN DIR_UP
    ELSE IF KEY_DOWN \in ks /\ dir # DIR_UP THEN DIR_DOWN
    ELSE next

InputStage(dir, next, ks) ==
    LET n1 == IF KEY_RIGHT \in ks /\ dir # DIR_LEFT THEN DIR_RIGHT ELSE next
        n2 == IF KEY_LEFT \in ks /\ dir # DIR_RIGHT THEN DIR_LEFT ELSE n1
        n3 == IF KEY_UP \in ks /\ dir # DIR_DOWN THEN DIR_UP ELSE n2
    IN  IF KEY_DOWN \in ks /\ dir # DIR_UP THEN DIR_DOWN ELSE n3

\* ---------------------------------------------------------------------------
\* Tick (UpdateGame, the body of "if (allowMove)")
\* ---------------------------------------------------------------------------
\* The candidate head: the old head moved one cell in direction dir.
NewHeadPos_Fallthrough(oldHeadPos, dir) ==
    CASE dir = DIR_RIGHT -> oldHeadPos
      [] dir = DIR_LEFT -> <<oldHeadPos[1] - 1, oldHeadPos[2]>>
      [] dir = DIR_UP -> oldHeadPos
      [] dir = DIR_DOWN -> <<oldHeadPos[1], oldHeadPos[2] + 1>>

NewHeadPos(oldHeadPos, dir) ==
    CASE dir = DIR_RIGHT -> <<oldHeadPos[1] + 1, oldHeadPos[2]>>
      [] dir = DIR_LEFT -> <<oldHeadPos[1] - 1, oldHeadPos[2]>>
      [] dir = DIR_UP -> <<oldHeadPos[1], oldHeadPos[2] - 1>>
      [] dir = DIR_DOWN -> <<oldHeadPos[1], oldHeadPos[2] + 1>>

\* 1. the wall test.
HitsWall_OffByOne(p) ==
    \/ p[1] < 0
    \/ p[1] > GAME_AREA_WIDTH
    \/ p[2] < 0
    \/ p[2] > GAME_AREA_HEIGHT

HitsWall_NoTopCheck(p) ==
    \/ p[1] < 0
    \/ p[1] >= GAME_AREA_WIDTH
    \/ p[2] >= GAME_AREA_HEIGHT

HitsWall(p) ==
    \/ p[1] < 0
    \/ p[1] >= GAME_AREA_WIDTH
    \/ p[2] < 0
    \/ p[2] >= GAME_AREA_HEIGHT

\* 2. the body test: "for (i = 1; i < snake.size() - 1; ++i)" in 0-based
\* indices is 2..Len(s)-1 in the 1-based indices of the model: the head and the
\* tail are skipped.
HitsSelf_SkipsTwo(p, s) ==
    \E i \in 2..(Len(s) - 2) : p = s[i]

HitsSelf_IncludesTail(p, s) ==
    \E i \in 2..Len(s) : p = s[i]

HitsSelf(p, s) ==
    \E i \in 2..(Len(s) - 1) : p = s[i]

\* The snake after the insert of the new head and, unless food was eaten, the
\* pop of the tail.
MoveBody_NeverPops(s, newHeadPos, ateFood) ==
    <<newHeadPos>> \o s

MoveBody(s, newHeadPos, ateFood) ==
    IF ateFood
        THEN <<newHeadPos>> \o s
        ELSE SubSeq(<<newHeadPos>> \o s, 1, Len(s))

\* "score += 10".
ScoreAfterFood_One(sc) == sc + 1

ScoreAfterFood(sc) == sc + 10

\* SpawnFood() with the snake s: the loop samples cells until one is free of the
\* snake and leaves the food active there. With no free cell the loop never
\* exits: the food stays inactive on the last sample and the caller never
\* resumes (pc "SpawnFood").
SpawnFood(s) ==
    IF FreeCells(s) # {}
        THEN \E c \in FreeCells(s) : food' = [position |-> c, active |-> TRUE]
        ELSE \E c \in Cells : food' = [position |-> c, active |-> FALSE]

\* The tick, with the direction nd it applies.
Tick(nd) ==
    LET newHeadPos == NewHeadPos(snake[1], nd)
        ateFood == food.active /\ newHeadPos = food.position
        moved == MoveBody(snake, newHeadPos, ateFood)
    IN  /\ snakeDir' = nd
        /\ IF HitsWall(newHeadPos) \/ HitsSelf(newHeadPos, snake)
             THEN /\ gameState' = STATE_GAME_OVER
                  /\ allowMove' = TRUE
                  /\ pc' = "DrawGame"
                  /\ UNCHANGED <<snake, food, score>>
             ELSE /\ snake' = moved
                  /\ gameState' = gameState
                  /\ IF ateFood
                       THEN /\ score' = ScoreAfterFood(score)
                            /\ SpawnFood(<<newHeadPos>> \o snake)
                            /\ allowMove' = ~food'.active
                            /\ pc' = IF food'.active THEN "DrawGame" ELSE "SpawnFood"
                       ELSE /\ allowMove' = FALSE
                            /\ pc' = "DrawGame"
                            /\ UNCHANGED <<food, score>>

\* ---------------------------------------------------------------------------
\* InitGame
\* ---------------------------------------------------------------------------
InitGame_NoClear ==
    LET s == snake \o InitSnake
    IN  /\ gameState' = STATE_PLAYING
        /\ paused' = FALSE
        /\ score' = 0
        /\ snake' = s
        /\ snakeDir' = DIR_RIGHT
        /\ nextSnakeDir' = DIR_RIGHT
        /\ SpawnFood(s)
        /\ allowMove' = IF food'.active THEN FALSE ELSE allowMove
        /\ moveTimer' = IF food'.active THEN 0 ELSE moveTimer
        /\ pc' = IF food'.active THEN "DrawGame" ELSE "SpawnFood"

InitGame_KeepsScore ==
    LET s == InitSnake
    IN  /\ gameState' = STATE_PLAYING
        /\ paused' = FALSE
        /\ score' = score
        /\ snake' = s
        /\ snakeDir' = DIR_RIGHT
        /\ nextSnakeDir' = DIR_RIGHT
        /\ SpawnFood(s)
        /\ allowMove' = IF food'.active THEN FALSE ELSE allowMove
        /\ moveTimer' = IF food'.active THEN 0 ELSE moveTimer
        /\ pc' = IF food'.active THEN "DrawGame" ELSE "SpawnFood"

InitGame ==
    LET s == InitSnake
    IN  /\ gameState' = STATE_PLAYING
        /\ paused' = FALSE
        /\ score' = 0
        /\ snake' = s
        /\ snakeDir' = DIR_RIGHT
        /\ nextSnakeDir' = DIR_RIGHT
        /\ SpawnFood(s)
        /\ allowMove' = IF food'.active THEN FALSE ELSE allowMove
        /\ moveTimer' = IF food'.active THEN 0 ELSE moveTimer
        /\ pc' = IF food'.active THEN "DrawGame" ELSE "SpawnFood"

\* ---------------------------------------------------------------------------
\* UpdateGame
\* ---------------------------------------------------------------------------
\* "if (gameState == STATE_GAME_OVER) { if (IsKeyPressed(KEY_ENTER)) InitGame();
\* return; }"
GameOverFrame_TogglesPause ==
    IF KEY_ENTER \in keys
        THEN InitGame
        ELSE /\ pc' = "DrawGame"
             /\ paused' = (IF KEY_P \in keys THEN ~paused ELSE paused)
             /\ UNCHANGED <<gameState, snake, snakeDir, nextSnakeDir, food,
                            allowMove, moveTimer, score>>

GameOverFrame ==
    IF KEY_ENTER \in keys
        THEN InitGame
        ELSE /\ pc' = "DrawGame"
             /\ UNCHANGED gameVars

\* "if (IsKeyPressed(KEY_P)) paused = !paused;"
PausedAfterToggle(p, ks) == IF KEY_P \in ks THEN ~p ELSE p

\* "if (paused) return;": nothing but the paused flag has changed.
PausedReturn_TimerRuns ==
    /\ moveTimer' = (moveTimer + frameTime) % MOVE_INTERVAL
    /\ pc' = "DrawGame"
    /\ UNCHANGED <<gameState, snake, snakeDir, nextSnakeDir, food, allowMove, score>>

PausedReturn_BuffersInput ==
    /\ nextSnakeDir' = InputStage(snakeDir, nextSnakeDir, keys)
    /\ pc' = "DrawGame"
    /\ UNCHANGED <<gameState, snake, snakeDir, food, allowMove, moveTimer, score>>

PausedReturn ==
    /\ pc' = "DrawGame"
    /\ UNCHANGED <<gameState, snake, snakeDir, nextSnakeDir, food, allowMove,
                   moveTimer, score>>

\* "if (moveTimer >= MOVE_INTERVAL)", with t the timer after "moveTimer +=
\* GetFrameTime()".
TimerDue_Strict(t) == t > MOVE_INTERVAL

TimerDue(t) == t >= MOVE_INTERVAL

\* The timer at the end of the frame: "moveTimer = 0.0f" when a tick is due.
MoveTimerUpdate_CarryOver(t) == IF t >= MOVE_INTERVAL THEN t - MOVE_INTERVAL ELSE t

MoveTimerUpdate(t) == IF TimerDue(t) THEN 0 ELSE t

\* The rest of UpdateGame in an unpaused frame: the input stage, the timer and,
\* when due, the tick.
PlayFrame ==
    LET nd == InputStage(snakeDir, nextSnakeDir, keys)
        t == moveTimer + frameTime
        fire == TimerDue(t)
    IN  /\ nextSnakeDir' = nd
        /\ moveTimer' = MoveTimerUpdate(t)
        /\ IF allowMove \/ fire
             THEN Tick(nd)
             ELSE /\ pc' = "DrawGame"
                  /\ UNCHANGED <<gameState, snake, snakeDir, food, allowMove, score>>

\* One call of UpdateGame with the keys and the frame time of the current frame.
\* The frame then draws (DrawGame changes nothing of the game) and reaches the
\* input poll, which starts by ageing the key states: no key is freshly pressed
\* any more, and the frame time is about to be replaced.
UpdateGame ==
    /\ pc = "UpdateGame"
    /\ keys' = {}
    /\ frameTime' = 0
    /\ IF gameState = STATE_GAME_OVER
         THEN GameOverFrame
         ELSE /\ paused' = PausedAfterToggle(paused, keys)
              /\ IF paused' THEN PausedReturn ELSE PlayFrame

\* The input poll at the end of DrawGame: the platform reports the keys freshly
\* pressed since the last poll and the time the frame took.
PollInputEvents ==
    /\ pc = "DrawGame"
    /\ Len(snake) < MaxLen
    /\ keys' \in KeySets
    /\ frameTime' \in FrameTimes
    /\ pc' = "UpdateGame"
    /\ UNCHANGED gameVars

\* ---------------------------------------------------------------------------
\* Specification
\* ---------------------------------------------------------------------------
\* The state when main() enters its loop: InitWindow and InitGame have run, no
\* input has been polled yet.
Init ==
    /\ gameState = STATE_PLAYING
    /\ paused = FALSE
    /\ score = 0
    /\ snake = InitSnake
    /\ snakeDir = DIR_RIGHT
    /\ nextSnakeDir = DIR_RIGHT
    /\ food \in {[position |-> c, active |-> TRUE] : c \in FreeCells(InitSnake)}
    /\ allowMove = FALSE
    /\ moveTimer = 0
    /\ keys = {}
    /\ frameTime = 0
    /\ pc = "UpdateGame"
    /\ elapsed = 0
    /\ ticks = 0
    /\ dropped = 0
    /\ steering = TRUE

\* The loop of main(): a frame, then the poll for the next one.
GameFrame == UpdateGame /\ UNCHANGED obsVars

GamePoll == PollInputEvents /\ UNCHANGED obsVars

Next == GameFrame \/ GamePoll

Spec == Init /\ [][Next]_vars


\* ---------------------------------------------------------------------------
\* What a frame is about to do, read in the state before UpdateGame
\* ---------------------------------------------------------------------------
\* The frame runs the input stage and the timer: the game is on and, after the
\* pause toggle, not paused.
RunsUnpaused ==
    /\ pc = "UpdateGame"
    /\ gameState = STATE_PLAYING
    /\ ~PausedAfterToggle(paused, keys)

\* "if (moveTimer >= MOVE_INTERVAL)" after "moveTimer += GetFrameTime()".
TickFires == RunsUnpaused /\ moveTimer + frameTime >= MOVE_INTERVAL

\* The candidate head of the tick of this frame.
Candidate == NewHeadPos(snake[1], InputStage(snakeDir, nextSnakeDir, keys))

\* The frame restarts the game.
Restarts ==
    /\ pc = "UpdateGame"
    /\ gameState = STATE_GAME_OVER
    /\ KEY_ENTER \in keys

Manhattan(p, q) ==
    (IF p[1] >= q[1] THEN p[1] - q[1] ELSE q[1] - p[1])
    + (IF p[2] >= q[2] THEN p[2] - q[2] ELSE q[2] - p[2])

\* ---------------------------------------------------------------------------
\* Claims
\* ---------------------------------------------------------------------------

\* C1 - Food exclusivity: at every frame boundary where the food is active, the
\* food position differs from the position of every snake segment.
FoodExclusivity ==
    (pc # "SpawnFood" /\ food.active)
        => \A i \in 1..Len(snake) : snake[i] # food.position

\* C1 witness: the snake has grown, and the respawned food lies right next to
\* the head.
FoodRespawnedNextToHead ==
    /\ pc = "DrawGame"
    /\ Len(snake) = 4
    /\ food.active
    /\ Manhattan(food.position, snake[1]) = 1

\* C2 - No self-overlap: while the phase is Playing, paused or not, no two
\* segments of the snake are on the same cell.
NoSelfOverlap ==
    gameState = STATE_PLAYING
        => \A i, j \in 1..Len(snake) : i # j => snake[i] # snake[j]

\* C2 witness: a grown snake whose head is next to its tail, the shape in which
\* the head steps onto the cell the tail leaves.
HeadNextToTail ==
    /\ gameState = STATE_PLAYING
    /\ Len(snake) >= 4
    /\ score >= 10
    /\ Manhattan(snake[1], snake[Len(snake)]) = 1

\* C3 - No reversal: the Current Direction after a frame of the running game
\* (so after any fired tick) is never the opposite of the Current Direction
\* before it.
NoReversal ==
    [][(pc = "UpdateGame" /\ gameState = STATE_PLAYING)
          => snakeDir' # Opposite(snakeDir)]_vars

\* C3 witness: the snake, which starts facing Right, travels Left: ticks have
\* turned it round.
TurnedRound ==
    /\ gameState = STATE_PLAYING
    /\ snakeDir = DIR_LEFT
    /\ pc = "DrawGame"

\* C4 - the Pending Direction is never the opposite of the Current Direction.
PendingNotOpposite == nextSnakeDir # Opposite(snakeDir)

\* C4 witness: after some ticks a direction other than the current one is
\* buffered.
PendingBuffered ==
    /\ gameState = STATE_PLAYING
    /\ snakeDir # DIR_RIGHT
    /\ nextSnakeDir # snakeDir
    /\ moveTimer > 0

\* C5 - Length invariant: a frame that does not restart the game adds one
\* segment if its tick fired and the candidate head is on the active food, and
\* leaves the length as it was otherwise; nothing else changes the snake.
LengthInvariant ==
    [][/\ (pc = "UpdateGame" /\ ~Restarts)
            => Len(snake') =
                 IF TickFires /\ food.active /\ Candidate = food.position
                     THEN Len(snake) + 1
                     ELSE Len(snake)
       /\ pc # "UpdateGame" => snake' = snake]_vars

\* C5 witness: a snake of four segments right after the tick that grew it.
GrewByOne ==
    /\ gameState = STATE_PLAYING
    /\ Len(snake) = 4
    /\ score = 10
    /\ moveTimer = 0
    /\ pc = "DrawGame"

\* C6 - Growth placement: on a tick whose candidate head is on the active food,
\* the snake becomes the new head, at the old food position, followed by every
\* old segment; the score rises by 10; and when SpawnFood returns the food is
\* active at a new position.
GrowthPlacement ==
    [][(TickFires /\ food.active /\ Candidate = food.position)
          => /\ snake' = <<food.position>> \o snake
             /\ score' = score + 10
             /\ gameState' = STATE_PLAYING
             /\ pc' = "DrawGame"
                  => /\ food'.active
                     /\ food'.position # food.position]_vars

\* C6 witness: two pieces of food eaten.
AteTwice ==
    /\ score = 20
    /\ Len(snake) = 5
    /\ food.active
    /\ pc = "DrawGame"

\* C7 - Terminal collision: on a fired tick whose candidate head is outside the
\* grid or on a segment other than the head and the tail, the phase becomes
\* Ended and the snake, the score and the food are what they were.
TerminalNoPartialMutation ==
    [][(/\ TickFires
        /\ \/ Candidate \notin Cells
           \/ \E i \in 2..(Len(snake) - 1) : snake[i] = Candidate)
          => /\ gameState' = STATE_GAME_OVER
             /\ snake' = snake
             /\ score' = score
             /\ food' = food]_vars

\* C7 witness: the game has ended on the snake's own body: the cell ahead of
\* the head, in the direction of the fatal tick, is inside the grid.
EndedOnOwnBody ==
    /\ gameState = STATE_GAME_OVER
    /\ NewHeadPos(snake[1], snakeDir) \in Cells

\* C8 - Pause freezes ticks: a frame of the paused game without a press of the
\* pause key changes neither the snake, the Current Direction, the score, the
\* food, the phase, the tick accumulator nor the paused flag, whatever time has
\* elapsed.
PauseFreezesTicks ==
    [][(/\ pc = "UpdateGame"
        /\ gameState = STATE_PLAYING
        /\ paused
        /\ KEY_P \notin keys)
          => UNCHANGED <<snake, snakeDir, score, food, gameState, moveTimer,
                         allowMove, paused>>]_vars

\* C8 witness: a paused frame is about to run with enough elapsed time for a
\* tick.
PausedFrameWithTickTime ==
    /\ pc = "UpdateGame"
    /\ gameState = STATE_PLAYING
    /\ paused
    /\ KEY_P \notin keys
    /\ moveTimer > 0
    /\ moveTimer + frameTime >= MOVE_INTERVAL

\* C9 as stated - a directional key pressed in a paused frame that is not the
\* opposite of the Current Direction becomes the Pending Direction, without
\* moving the snake.
PausedInputBuffered ==
    [][(/\ pc = "UpdateGame"
        /\ gameState = STATE_PLAYING
        /\ paused
        /\ KEY_P \notin keys)
          => /\ nextSnakeDir' = InputStage(snakeDir, nextSnakeDir, keys)
             /\ snake' = snake]_vars

\* C9 as amended - directional input of a frame that stays paused is discarded:
\* the Pending Direction and the snake are unchanged; the input of the frame
\* that un-pauses is buffered.
PausedInputDiscarded ==
    [][/\ (/\ pc = "UpdateGame"
           /\ gameState = STATE_PLAYING
           /\ paused
           /\ KEY_P \notin keys)
            => /\ nextSnakeDir' = nextSnakeDir
               /\ snake' = snake
       /\ (/\ pc = "UpdateGame"
           /\ gameState = STATE_PLAYING
           /\ paused
           /\ KEY_P \in keys)
            => nextSnakeDir' = InputStage(snakeDir, nextSnakeDir, keys)]_vars

\* C9 witness: a paused frame is about to run with a directional key that the
\* input stage would accept and that differs from the Pending Direction.
PausedFrameWithValidKey ==
    /\ pc = "UpdateGame"
    /\ gameState = STATE_PLAYING
    /\ paused
    /\ KEY_P \notin keys
    /\ InputStage(snakeDir, nextSnakeDir, keys) # nextSnakeDir

\* C10 - Restart resets: a frame of the ended game with the restart key yields
\* the state of process start: Playing, not paused, score 0, the centred snake
\* of three segments, both directions Right, accumulator 0, no tick due, and
\* the food active on a cell off the snake.
RestartResets ==
    [][(Restarts /\ pc' = "DrawGame")
          => /\ gameState' = STATE_PLAYING
             /\ ~paused'
             /\ score' = 0
             /\ snake' = << <<GAME_AREA_WIDTH \div 2, GAME_AREA_HEIGHT \div 2>>,
                            <<(GAME_AREA_WIDTH \div 2) - 1, GAME_AREA_HEIGHT \div 2>>,
                            <<(GAME_AREA_WIDTH \div 2) - 2, GAME_AREA_HEIGHT \div 2>> >>
             /\ snakeDir' = DIR_RIGHT
             /\ nextSnakeDir' = DIR_RIGHT
             /\ moveTimer' = 0
             /\ ~allowMove'
             /\ food'.active
             /\ food'.position \in Cells
             /\ \A i \in 1..Len(snake') : snake'[i] # food'.position]_vars

\* C10 witness: the restart key is pressed in an ended game that has a score
\* and a snake that no longer faces Right.
RestartPressed ==
    /\ Restarts
    /\ score > 0
    /\ snakeDir # DIR_RIGHT
    /\ snake # InitSnake


\* C11 - Ended accepts only restart: a frame of the ended game without the
\* restart key changes nothing of the game, whatever keys and elapsed time it
\* carries; and the phase leaves Ended only in a frame that restarts.
EndedAcceptsOnlyRestart ==
    [][/\ (/\ pc = "UpdateGame"
           /\ gameState = STATE_GAME_OVER
           /\ KEY_ENTER \notin keys)
            => UNCHANGED gameVars
       /\ (gameState = STATE_GAME_OVER /\ gameState' # STATE_GAME_OVER)
            => Restarts]_vars

\* C11 witness: a frame of the ended game is about to run with the pause key,
\* a directional key and enough time for a tick, but without the restart key.
EndedFrameWithOtherInput ==
    /\ pc = "UpdateGame"
    /\ gameState = STATE_GAME_OVER
    /\ KEY_ENTER \notin keys
    /\ KEY_P \in keys
    /\ keys \cap {KEY_RIGHT, KEY_LEFT, KEY_UP, KEY_DOWN} # {}
    /\ frameTime >= MOVE_INTERVAL

\* The directions whose key is freshly pressed and that are not the opposite
\* of the Current Direction, and the one the priority order leaves.
KeyOf(d) ==
    CASE d = DIR_RIGHT -> KEY_RIGHT
      [] d = DIR_LEFT -> KEY_LEFT
      [] d = DIR_UP -> KEY_UP
      [] d = DIR_DOWN -> KEY_DOWN

Rank(d) ==
    CASE d = DIR_RIGHT -> 1
      [] d = DIR_LEFT -> 2
      [] d = DIR_UP -> 3
      [] d = DIR_DOWN -> 4

ValidDirs == {d \in SnakeDirection : KeyOf(d) \in keys /\ d # Opposite(snakeDir)}

LastValidDir ==
    IF ValidDirs = {}
        THEN nextSnakeDir
        ELSE CHOOSE d \in ValidDirs : \A e \in ValidDirs : Rank(e) <= Rank(d)

\* C13 - Input priority: in an unpaused frame of the running game the Pending
\* Direction becomes the last direction, in the order Right, Left, Up, Down,
\* whose key is pressed and that is not the opposite of the Current Direction,
\* and stays as it was if there is none; in a frame without a tick nothing else
\* changes but the accumulator.
InputPriority ==
    [][RunsUnpaused
          => /\ nextSnakeDir' = LastValidDir
             /\ ~TickFires
                  => /\ UNCHANGED <<snake, snakeDir, food, score, gameState,
                                    allowMove>>
                     /\ moveTimer' = moveTimer + frameTime]_vars

\* C13 witness: an unpaused frame is about to run with two directional keys
\* pressed that both pass the test.
TwoValidKeysPressed ==
    /\ RunsUnpaused
    /\ Cardinality(ValidDirs) >= 2

\* C14 - Tick scheduler: in an unpaused frame of the running game a tick fires
\* (the snake moves or the game ends) exactly when the accumulator plus the
\* frame time reaches the interval; the accumulator is then 0, and otherwise it
\* is the sum; a frame moves the snake by one cell at most, however long it
\* took.
TickScheduler ==
    [][RunsUnpaused
          => LET t == moveTimer + frameTime
                 ticked == snake' # snake \/ gameState' = STATE_GAME_OVER
             IN  /\ ticked <=> t >= MOVE_INTERVAL
                 /\ t >= MOVE_INTERVAL => moveTimer' = 0
                 /\ t < MOVE_INTERVAL => (moveTimer' = t /\ moveTimer' >= moveTimer)
                 /\ snake' # snake
                      => /\ snake'[2] = snake[1]
                         /\ Manhattan(snake'[1], snake[1]) = 1]_vars

\* C14 witness: an unpaused frame that took more than two intervals is about
\* to run.
StalledFrame ==
    /\ RunsUnpaused
    /\ frameTime >= 2 * MOVE_INTERVAL
    /\ moveTimer > 0

\* The old head plus the unit vector of direction d: Right +x, Left -x, Up -y,
\* Down +y.
HeadPlusUnit(d) ==
    <<snake[1][1] + (IF d = DIR_RIGHT THEN 1 ELSE IF d = DIR_LEFT THEN -1 ELSE 0),
      snake[1][2] + (IF d = DIR_DOWN THEN 1 ELSE IF d = DIR_UP THEN -1 ELSE 0)>>

\* C15 - the phase goes from Playing to Ended in a frame exactly when a tick
\* fires and the candidate head (the old head plus the unit vector of the
\* direction just applied) is outside the grid or on a segment other than the
\* head and the tail; a candidate head on the tail cell does not end the game.
EndsExactlyOnCollision ==
    [][(pc = "UpdateGame" /\ gameState = STATE_PLAYING)
          => LET c == HeadPlusUnit(snakeDir')
             IN  /\ gameState' = STATE_GAME_OVER
                      <=> /\ TickFires
                          /\ \/ c[1] \notin 0..(GAME_AREA_WIDTH - 1)
                             \/ c[2] \notin 0..(GAME_AREA_HEIGHT - 1)
                             \/ \E i \in 2..(Len(snake) - 1) : snake[i] = c
                 /\ (TickFires /\ c = snake[Len(snake)])
                      => gameState' = STATE_PLAYING]_vars

\* C15 witness: a tick is about to fire whose candidate head is the tail cell.
SteppingOnTail ==
    /\ TickFires
    /\ Candidate = snake[Len(snake)]

\* C17 - neighbouring segments of the snake are at Manhattan distance 1.
SegmentsAdjacent ==
    \A i \in 1..(Len(snake) - 1) : Manhattan(snake[i], snake[i + 1]) = 1

\* C17 witness: a grown snake that has turned, right after a frame.
BentSnake ==
    /\ pc = "DrawGame"
    /\ Len(snake) = 5
    /\ snake[1][1] # snake[5][1]
    /\ snake[1][2] # snake[5][2]

\* C18 - Score tracks growth: the score is 10 * (snake length - 3), and the
\* snake has at least 3 segments.
ScoreTracksGrowth ==
    /\ Len(snake) >= 3
    /\ score = 10 * (Len(snake) - 3)

\* C18 witness: a game that ended with two pieces of food eaten.
EndedWithScore ==
    /\ gameState = STATE_GAME_OVER
    /\ score = 20

\* C20 - Snake stays on the board: every segment has its column in [0, W-1]
\* and its row in [0, H-1].
SnakeOnBoard ==
    \A i \in 1..Len(snake) :
        /\ snake[i][1] \in 0..(GAME_AREA_WIDTH - 1)
        /\ snake[i][2] \in 0..(GAME_AREA_HEIGHT - 1)

\* C20 witness: the game has ended at the wall: the cell ahead of the head, in
\* the direction of the fatal tick, is outside the grid.
EndedAtWall ==
    /\ gameState = STATE_GAME_OVER
    /\ NewHeadPos(snake[1], snakeDir) \notin Cells


\* ---------------------------------------------------------------------------
\* Tick cadence: runs of unpaused frames shorter than the interval
\* ---------------------------------------------------------------------------
\* The frames stop once this much time, in units of 0.05 s, has elapsed.
MaxElapsed == 12

\* The poll of a run in which the pause and restart keys are never pressed and
\* every frame takes less than the interval.
CadencePoll ==
    /\ pc = "DrawGame"
    /\ gameState = STATE_PLAYING
    /\ Len(snake) < MaxLen
    /\ elapsed < MaxElapsed
    /\ keys' \in {ks \in SUBSET {KEY_RIGHT, KEY_LEFT, KEY_UP, KEY_DOWN} :
                    Cardinality(ks) <= 1}
    /\ frameTime' \in 0..(MOVE_INTERVAL - 1)
    /\ pc' = "UpdateGame"
    /\ UNCHANGED gameVars
    /\ UNCHANGED obsVars

\* UpdateGame, observed: the time fed to the accumulator, whether the tick body
\* ran (the snake moved or the game ended), and the excess the reset lost.
CadenceFrame ==
    /\ UpdateGame
    /\ elapsed' = elapsed + frameTime
    /\ LET ticked == snake' # snake \/ gameState' # gameState
       IN  /\ ticks' = IF ticked THEN ticks + 1 ELSE ticks
           /\ dropped' = IF ticked
                           THEN dropped + (moveTimer + frameTime - MOVE_INTERVAL)
                           ELSE dropped
    /\ UNCHANGED steering

NextCadence == CadenceFrame \/ CadencePoll

SpecCadence == Init /\ [][NextCadence]_vars

\* C12 as stated - Tick cadence: after unpaused frames, each shorter than the
\* interval, that sum to T and did not end the game, the number of ticks fired
\* is floor(T / interval).
TickCadenceFloor ==
    gameState = STATE_PLAYING => ticks = elapsed \div MOVE_INTERVAL

\* C12 as amended - the number of ticks fired is floor((T - D) / interval),
\* where D is the accumulator excess dropped at the fired ticks: T is ticks
\* times the interval, plus D, plus what the accumulator holds, which is less
\* than the interval. It is at most floor(T / interval), and equal to it when
\* nothing was dropped.
TickCadenceWithDrops ==
    /\ moveTimer < MOVE_INTERVAL
    /\ elapsed = ticks * MOVE_INTERVAL + dropped + moveTimer
    /\ ticks = (elapsed - dropped) \div MOVE_INTERVAL
    /\ ticks <= elapsed \div MOVE_INTERVAL
    /\ dropped = 0 => ticks = elapsed \div MOVE_INTERVAL

\* C12 witness: three ticks fired in a game still running, with excess dropped
\* at some of them.
TicksWithDrops ==
    /\ gameState = STATE_PLAYING
    /\ ticks = 3
    /\ dropped >= MOVE_INTERVAL


\* ---------------------------------------------------------------------------
\* Food placement: the loop of SpawnFood, one sample at a time
\* ---------------------------------------------------------------------------
\* One pass of the loop body with the sample c: food.active stays true when the
\* rectangle of c collides with no segment of s.
SampleAccepted_IgnoresTail(c, s) ==
    \A i \in 1..(Len(s) - 1) : ~CheckCollisionRecs(CellRec(c), CellRec(s[i]))

SampleAccepted(c, s) ==
    \A i \in 1..Len(s) : ~CheckCollisionRecs(CellRec(c), CellRec(s[i]))

\* The frame runs the tick and the tick reaches the call of SpawnFood.
EatingTick ==
    /\ pc = "UpdateGame"
    /\ gameState = STATE_PLAYING
    /\ ~PausedAfterToggle(paused, keys)
    /\ allowMove \/ TimerDue(moveTimer + frameTime)
    /\ LET newHeadPos == NewHeadPos(snake[1], InputStage(snakeDir, nextSnakeDir, keys))
       IN  /\ ~HitsWall(newHeadPos)
           /\ ~HitsSelf(newHeadPos, snake)
           /\ food.active
           /\ newHeadPos = food.position

\* UpdateGame up to the call of SpawnFood and the first statement of it,
\* "food.active = false": the head is inserted and the score raised; the pop
\* and the reset of allowMove wait for the return.
FoodCall ==
    /\ EatingTick
    /\ LET nd == InputStage(snakeDir, nextSnakeDir, keys)
       IN  /\ paused' = PausedAfterToggle(paused, keys)
           /\ nextSnakeDir' = nd
           /\ moveTimer' = MoveTimerUpdate(moveTimer + frameTime)
           /\ snakeDir' = nd
           /\ snake' = MoveBody(snake, NewHeadPos(snake[1], nd), TRUE)
           /\ score' = ScoreAfterFood(score)
    /\ food' = [position |-> food.position, active |-> FALSE]
    /\ allowMove' = TRUE
    /\ pc' = "SpawnFood"
    /\ UNCHANGED <<gameState, keys, frameTime>>
    /\ UNCHANGED obsVars

\* A sample on the snake: food.active is false again and the loop goes round.
SpawnFoodReject ==
    /\ pc = "SpawnFood"
    /\ \E c \in Cells :
          /\ ~SampleAccepted(c, snake)
          /\ food' = [position |-> c, active |-> FALSE]
    /\ UNCHANGED <<gameState, snake, snakeDir, nextSnakeDir, allowMove, moveTimer,
                   score, paused, keys, frameTime, pc>>
    /\ UNCHANGED obsVars

\* A sample off the snake: the loop ends, SpawnFood returns and UpdateGame
\* finishes (no pop, "allowMove = false").
SpawnFoodAccept ==
    /\ pc = "SpawnFood"
    /\ \E c \in Cells :
          /\ SampleAccepted(c, snake)
          /\ food' = [position |-> c, active |-> TRUE]
    /\ allowMove' = FALSE
    /\ keys' = {}
    /\ frameTime' = 0
    /\ pc' = "DrawGame"
    /\ UNCHANGED <<gameState, snake, snakeDir, nextSnakeDir, moveTimer, score, paused>>
    /\ UNCHANGED obsVars

\* Every other frame.
FoodFrame ==
    /\ ~EatingTick
    /\ UpdateGame
    /\ UNCHANGED obsVars

\* The poll of a run in which every frame takes one interval and at most one
\* directional key is pressed.
FoodPoll ==
    /\ pc = "DrawGame"
    /\ gameState = STATE_PLAYING
    /\ keys' \in {ks \in SUBSET {KEY_RIGHT, KEY_LEFT, KEY_UP, KEY_DOWN} :
                    Cardinality(ks) <= 1}
    /\ frameTime' = MOVE_INTERVAL
    /\ pc' = "UpdateGame"
    /\ UNCHANGED gameVars
    /\ UNCHANGED obsVars

NextFood == FoodFrame \/ FoodCall \/ SpawnFoodReject \/ SpawnFoodAccept \/ FoodPoll

\* Fair sampling: while some sample would be accepted, one eventually is drawn.
SpecFood == Init /\ [][NextFood]_vars /\ WF_vars(SpawnFoodAccept)

\* The snake occupies every cell of the grid.
BoardFull == \A c \in Cells : \E i \in 1..Len(snake) : snake[i] = c

\* C16 - Food placement termination: under fair sampling SpawnFood, entered
\* with a cell free of the snake, returns with the food active on a cell off
\* the snake; entered with the snake on every cell it never returns.
FoodPlacementTermination ==
    /\ (pc = "SpawnFood" /\ ~BoardFull)
          ~> (/\ pc = "DrawGame"
              /\ food.active
              /\ \A i \in 1..Len(snake) : snake[i] # food.position)
    /\ [][(pc = "SpawnFood" /\ pc' # "SpawnFood")
             => /\ food'.active
                /\ \A i \in 1..Len(snake') : snake'[i] # food'.position]_vars
    /\ [][(pc = "SpawnFood" /\ BoardFull)
             => (pc' = "SpawnFood" /\ ~food'.active)]_vars

\* C16 witness: the snake has eaten its way to a full board and SpawnFood is
\* sampling.
SamplingOnFullBoard ==
    /\ pc = "SpawnFood"
    /\ BoardFull
    /\ Len(snake) = GAME_AREA_WIDTH * GAME_AREA_HEIGHT


\* ---------------------------------------------------------------------------
\* A player who lets go of the keys
\* ---------------------------------------------------------------------------
\* The poll while the player steers: at most one key, a short frame or one of a
\* whole interval.
SteerPoll ==
    /\ pc = "DrawGame"
    /\ steering
    /\ Len(snake) < MaxLen
    /\ keys' \in {ks \in SUBSET Keys : Cardinality(ks) <= 1}
    /\ frameTime' \in {1, MOVE_INTERVAL}
    /\ pc' = "UpdateGame"
    /\ UNCHANGED gameVars
    /\ UNCHANGED obsVars

\* The player lets go, in a running, unpaused game; the ticks are counted from
\* here.
LetGo ==
    /\ pc = "DrawGame"
    /\ steering
    /\ gameState = STATE_PLAYING
    /\ ~paused
    /\ steering' = FALSE
    /\ ticks' = 0
    /\ UNCHANGED <<gameVars, keys, frameTime, pc, elapsed, dropped>>

\* The poll from then on: frames keep arriving, each takes some time, no key is
\* pressed.
QuietPoll ==
    /\ pc = "DrawGame"
    /\ ~steering
    /\ keys' = {}
    /\ frameTime' \in {1, MOVE_INTERVAL, LongFrame}
    /\ pc' = "UpdateGame"
    /\ UNCHANGED gameVars
    /\ UNCHANGED obsVars

\* UpdateGame, with the ticks fired since the player let go counted.
NoSteerFrame ==
    /\ UpdateGame
    /\ ticks' = IF ~steering /\ (snake' # snake \/ gameState' # gameState)
                  THEN ticks + 1
                  ELSE ticks
    /\ UNCHANGED <<elapsed, dropped, steering>>

NextNoSteer == NoSteerFrame \/ SteerPoll \/ LetGo \/ QuietPoll

\* The loop of main() keeps running frames: UpdateGame and the poll that
\* follows are never postponed for ever.
SpecNoSteer ==
    Init /\ [][NextNoSteer]_vars /\ WF_vars(NoSteerFrame) /\ WF_vars(QuietPoll)

MaxDim ==
    IF GAME_AREA_WIDTH >= GAME_AREA_HEIGHT THEN GAME_AREA_WIDTH ELSE GAME_AREA_HEIGHT

\* C19 - once the player of a running, unpaused game lets go of the keys, the
\* game ends after max(W, H) ticks at most, unless SpawnFood is stuck on a full
\* board.
EndsWithoutSteering ==
    /\ ~steering ~> (gameState = STATE_GAME_OVER \/ pc = "SpawnFood")
    /\ [](~steering
            => /\ ticks <= MaxDim
               /\ ticks = MaxDim => (gameState = STATE_GAME_OVER \/ pc = "SpawnFood"))

\* C19 witness: the game has ended with no key pressed, after the snake ran
\* straight for max(W, H) ticks.
RanIntoWallUnsteered ==
    /\ ~steering
    /\ gameState = STATE_GAME_OVER
    /\ ticks = MaxDim

====
